---- MODULE Spec2Model ----
(***************************************************************************)
(* anymap: a map holding at most one value per type.                       *)
(*                                                                         *)
(* The model has three layers, as the source has:                          *)
(*   - the untyped store (raw.rs RawMap): TypeId -> boxed cell;            *)
(*   - the typed map (lib.rs AnyMap) and its entry views, which compute    *)
(*     the key from the type parameter and downcast without a check;       *)
(*   - the Fetcher (fetch.rs), which hands out several mutable references  *)
(*     gated by a mask of type ids.                                        *)
(* A cell carries the type it was really built from, so that an unchecked  *)
(* downcast to another type is visible (variable fault).                   *)
(* Rust's borrow rules are the guards of the actions: while a view, a      *)
(* reference or a Fetcher session borrows the map, the map's own methods   *)
(* cannot be called.                                                       *)
(***************************************************************************)
EXTENDS Naturals, FiniteSets, Sequences, Bags

\* Number of distinct concrete types the callers use.
NumTypes == 3
\* Values of each type are 0..MaxVal.
MaxVal == 1

Types == 1..NumTypes
Values == 0..MaxVal

\* Option<T>
None == <<>>
Some(x) == <<x>>

\* Faulty variant: every type gets the same id.
TypeIdOf_collide(T) == [id |-> 0]

\* TypeId::of::<T>(): an opaque identifier, equal for equal types and
\* distinct for distinct types.
TypeIdOf(T) == [id |-> T]

\* Box::new(value) as Box<Any>: the cell remembers the type it was built from.
Box(T, v) == [ty |-> T, val |-> v]

VARIABLES
    data,      \* AnyMap.data / RawMap.inner: a function from the stored keys to cells
    view,      \* the entry view borrowed from the map, if any
    mref,      \* the &mut reference obtained from get_mut / a view, if any
    session,   \* "none", "open" (a Fetcher exists), "closed" (it is dropped, its references live on)
    mask,      \* Fetcher.mask
    refs,      \* the live references the Fetcher has returned (a bag)
    issued,    \* every reference the Fetcher has returned in this session (a bag)
    fault,     \* TRUE once an unchecked downcast was applied to a cell of another type
    last       \* the last call: its name, type parameter, argument and result

vars == <<data, view, mref, session, mask, refs, issued, fault, last>>

NoView == [kind |-> "None"]

Call(op, T, arg, ret) == [op |-> op, ty |-> T, arg |-> arg, ret |-> ret]

----------------------------------------------------------------------------
(* Unchecked downcasts: the data pointer is reinterpreted as a T.  When the *)
(* cell holds a T the result is its value; otherwise the behaviour is       *)
(* undefined and any value of T may be seen.                                *)

downcast_ref_unchecked(cell, T) == IF cell.ty = T THEN {cell.val} ELSE Values

downcast_mut_unchecked(cell, T) == IF cell.ty = T THEN {cell.val} ELSE Values

downcast_unchecked(cell, T) == IF cell.ty = T THEN {cell.val} ELSE Values

\* Whether a downcast of this optional cell to T meets a cell of another type.
Mismatch(opt, T) == opt # None /\ opt[1].ty # T

----------------------------------------------------------------------------
(* The untyped store. *)

RawGet(m, k) == IF k \in DOMAIN m THEN Some(m[k]) ELSE None

RawGetMut(m, k) == IF k \in DOMAIN m THEN Some(m[k]) ELSE None

RawContainsKey(m, k) == k \in DOMAIN m

\* Faulty variant: an existing entry is kept, the new cell is dropped.
RawInsert_keep_old(m, k, cell) ==
    [map |-> [x \in (DOMAIN m) \cup {k} |-> IF x \in DOMAIN m THEN m[x] ELSE cell],
     ret |-> IF k \in DOMAIN m THEN Some(m[k]) ELSE None]

RawInsert(m, k, cell) ==
    [map |-> [x \in (DOMAIN m) \cup {k} |-> IF x = k THEN cell ELSE m[x]],
     ret |-> IF k \in DOMAIN m THEN Some(m[k]) ELSE None]

\* Faulty variant: the cell is returned but stays in the map.
RawRemove_keep(m, k) ==
    [map |-> m,
     ret |-> IF k \in DOMAIN m THEN Some(m[k]) ELSE None]

\* Faulty variant: the key goes, but the cell dropped is that of another key,
\* whose slot is left holding the cell of the key removed.
RawRemove_wrong_cell(m, k) ==
    IF k \in DOMAIN m /\ (DOMAIN m) \ {k} # {}
    THEN LET j == CHOOSE j \in (DOMAIN m) \ {k} : TRUE
         IN  [map |-> [x \in (DOMAIN m) \ {k} |-> IF x = j THEN m[k] ELSE m[x]],
              ret |-> Some(m[j])]
    ELSE [map |-> [x \in (DOMAIN m) \ {k} |-> m[x]],
          ret |-> IF k \in DOMAIN m THEN Some(m[k]) ELSE None]

RawRemove(m, k) ==
    [map |-> [x \in (DOMAIN m) \ {k} |-> m[x]],
     ret |-> IF k \in DOMAIN m THEN Some(m[k]) ELSE None]

\* Faulty variant: the slot is reported vacant whether or not the key is stored.
RawEntry_always_vacant(m, k) == [kind |-> "Vacant", key |-> k]

RawEntry(m, k) ==
    IF k \in DOMAIN m THEN [kind |-> "Occupied", key |-> k]
                      ELSE [kind |-> "Vacant", key |-> k]

\* The outcome of a call that panics.
Panic == <<"panic", "no entry found for key">>

\* Faulty variant: a missing key gives None, as get does.
RawIndex_or_none(m, k) == RawGet(m, k)

\* Index::index / IndexMut::index_mut: self.get(&index).expect(..) panics
\* when the key has no entry.
RawIndex(m, k) == IF RawGet(m, k) = None THEN Panic ELSE RawGet(m, k)

RawIndexMut(m, k) == IF RawGetMut(m, k) = None THEN Panic ELSE RawGetMut(m, k)

\* The views of the untyped store.  A reference into the store is named by
\* the key of the cell it points at.
RawOccupiedEntry_get(m, e) == m[e.key]

RawOccupiedEntry_get_mut(m, e) == e.key

RawOccupiedEntry_into_mut(m, e) == e.key

RawOccupiedEntry_insert(m, e, cell) ==
    [map |-> [m EXCEPT ![e.key] = cell], ret |-> m[e.key]]

RawOccupiedEntry_remove(m, e) ==
    [map |-> [x \in (DOMAIN m) \ {e.key} |-> m[x]], ret |-> m[e.key]]

RawVacantEntry_insert(m, e, cell) ==
    [map |-> [x \in (DOMAIN m) \cup {e.key} |-> IF x = e.key THEN cell ELSE m[x]],
     ret |-> e.key]

\* Faulty variant: the default is stored whether or not the slot is occupied.
Entry_or_insert_always(m, e, cell) ==
    [map |-> [x \in (DOMAIN m) \cup {e.key} |-> IF x = e.key THEN cell ELSE m[x]],
     ret |-> e.key]

\* Entry::or_insert: an occupied slot is kept and referred to, a vacant one
\* gets the default.
Entry_or_insert(m, e, cell) ==
    IF e.kind = "Occupied"
    THEN [map |-> m, ret |-> RawOccupiedEntry_into_mut(m, e)]
    ELSE RawVacantEntry_insert(m, e, cell)

\* Entry::or_insert_with: the closure giving the default runs only for a
\* vacant slot.
Entry_or_insert_with(m, e, cell) ==
    IF e.kind = "Occupied"
    THEN [map |-> m, ret |-> RawOccupiedEntry_into_mut(m, e), called |-> FALSE]
    ELSE [map |-> RawVacantEntry_insert(m, e, cell).map,
          ret |-> RawVacantEntry_insert(m, e, cell).ret, called |-> TRUE]

----------------------------------------------------------------------------
(* The typed map.  Each operator gives the new store, the set of results    *)
(* the call can return, and whether its downcast met a mismatching cell.    *)

\* HashMap::with_hash_state(..): the map with no entry.
EmptyMap == [x \in {} |-> Box(1, 0)]

new == EmptyMap

\* Faulty variant: an absent type yields a default value.
get_or_default(m, T) ==
    LET opt == RawGet(m, TypeIdOf(T))
    IN  [rets |-> IF opt = None THEN {Some(0)}
                  ELSE {Some(x) : x \in downcast_ref_unchecked(opt[1], T)},
         bad |-> Mismatch(opt, T)]

get(m, T) ==
    LET opt == RawGet(m, TypeIdOf(T))
    IN  [rets |-> IF opt = None THEN {None}
                  ELSE {Some(x) : x \in downcast_ref_unchecked(opt[1], T)},
         bad |-> Mismatch(opt, T)]

\* The reference get_mut returns is named by the key it was looked up under
\* and the type it is typed as.
get_mut(m, T) ==
    LET opt == RawGetMut(m, TypeIdOf(T))
    IN  [ret |-> IF opt = None THEN None
                 ELSE Some([key |-> TypeIdOf(T), ty |-> T]),
         bad |-> Mismatch(opt, T)]

\* Faulty variant: the cell is filed under the id of another type.
insert_under_other_key(m, T, v) ==
    LET r == RawInsert(m, TypeIdOf((T % NumTypes) + 1), Box(T, v))
    IN  [map |-> r.map,
         rets |-> IF r.ret = None THEN {None}
                  ELSE {Some(x) : x \in downcast_unchecked(r.ret[1], T)},
         bad |-> Mismatch(r.ret, T)]

\* Faulty variant: the previous value is discarded instead of returned.
insert_discard_old(m, T, v) ==
    LET r == RawInsert(m, TypeIdOf(T), Box(T, v))
    IN  [map |-> r.map, rets |-> {None}, bad |-> FALSE]

insert(m, T, v) ==
    LET r == RawInsert(m, TypeIdOf(T), Box(T, v))
    IN  [map |-> r.map,
         rets |-> IF r.ret = None THEN {None}
                  ELSE {Some(x) : x \in downcast_unchecked(r.ret[1], T)},
         bad |-> Mismatch(r.ret, T)]

remove(m, T) ==
    LET r == RawRemove(m, TypeIdOf(T))
    IN  [map |-> r.map,
         rets |-> IF r.ret = None THEN {None}
                  ELSE {Some(x) : x \in downcast_unchecked(r.ret[1], T)},
         bad |-> Mismatch(r.ret, T)]

contains(m, T) == RawContainsKey(m, TypeIdOf(T))

entry(m, T) ==
    LET e == RawEntry(m, TypeIdOf(T))
    IN  [kind |-> e.kind, key |-> e.key, ty |-> T]

\* entry::<T>().or_insert(default): the store's or_insert on the slot of T,
\* with the default boxed, and the reference downcast to T.
or_insert(m, T, d) ==
    LET r == Entry_or_insert(m, RawEntry(m, TypeIdOf(T)), Box(T, d))
    IN  [map |-> r.map,
         ret |-> [key |-> r.ret, ty |-> T],
         bad |-> r.map[r.ret].ty # T]

or_insert_with(m, T, d) ==
    LET r == Entry_or_insert_with(m, RawEntry(m, TypeIdOf(T)), Box(T, d))
    IN  [map |-> r.map,
         ret |-> [key |-> r.ret, ty |-> T],
         bad |-> r.map[r.ret].ty # T,
         called |-> r.called]

\* Faulty variant: the number of entries the map has room for.
len_capacity(m) == NumTypes

len(m) == Cardinality(DOMAIN m)

is_empty(m) == Cardinality(DOMAIN m) = 0

clear(m) == EmptyMap

\* The value seen through a reference.
Deref(m, r) == downcast_mut_unchecked(m[r.key], r.ty)

\* Faulty variant: the write is lost and the store stays as it was.
WriteThrough_lost(m, r, v) == {m}

\* *r = v: the stores a write through a reference can leave.  The cell under
\* the reference's key gets the written value; a write of a T into a cell of
\* another type is undefined and may leave any value there.
WriteThrough(m, r, v) ==
    {[m EXCEPT ![r.key] = [ty |-> @.ty, val |-> w]] :
        w \in IF m[r.key].ty = r.ty THEN {v} ELSE Values}

----------------------------------------------------------------------------
(* Entry views. *)

OccupiedEntry_get(m, e) ==
    [rets |-> downcast_ref_unchecked(m[e.key], e.ty),
     bad |-> m[e.key].ty # e.ty]

OccupiedEntry_get_mut(m, e) ==
    [ret |-> [key |-> e.key, ty |-> e.ty],
     bad |-> m[e.key].ty # e.ty]

OccupiedEntry_into_mut(m, e) ==
    [ret |-> [key |-> e.key, ty |-> e.ty],
     bad |-> m[e.key].ty # e.ty]

\* Faulty variant: the value returned is the new one, not the one replaced.
OccupiedEntry_insert_returns_new(m, e, v) ==
    [map |-> [m EXCEPT ![e.key] = Box(e.ty, v)],
     rets |-> {v},
     bad |-> m[e.key].ty # e.ty]

OccupiedEntry_insert(m, e, v) ==
    [map |-> [m EXCEPT ![e.key] = Box(e.ty, v)],
     rets |-> downcast_unchecked(m[e.key], e.ty),
     bad |-> m[e.key].ty # e.ty]

\* Faulty variant: the value is returned but its cell stays in the map.
OccupiedEntry_remove_keeps_cell(m, e) ==
    [map |-> m,
     rets |-> downcast_unchecked(m[e.key], e.ty),
     bad |-> m[e.key].ty # e.ty]

OccupiedEntry_remove(m, e) ==
    [map |-> [x \in (DOMAIN m) \ {e.key} |-> m[x]],
     rets |-> downcast_unchecked(m[e.key], e.ty),
     bad |-> m[e.key].ty # e.ty]

\* Faulty variant: the slot is filled with a default value, not the one given.
VacantEntry_insert_default(m, e, v) ==
    [map |-> [x \in (DOMAIN m) \cup {e.key} |-> IF x = e.key THEN Box(e.ty, 0) ELSE m[x]],
     ret |-> [key |-> e.key, ty |-> e.ty]]

VacantEntry_insert(m, e, v) ==
    [map |-> [x \in (DOMAIN m) \cup {e.key} |-> IF x = e.key THEN Box(e.ty, v) ELSE m[x]],
     ret |-> [key |-> e.key, ty |-> e.ty]]

----------------------------------------------------------------------------
(* Fetcher. *)

Fetcher_new == {}

\* Faulty variant: the id is recorded only when a value was found.
fetch_mask_on_success(msk, m, T) ==
    IF TypeIdOf(T) \in msk
    THEN [mask |-> msk, ret |-> None, bad |-> FALSE]
    ELSE LET g == get_mut(m, T)
         IN  [mask |-> IF g.ret = None THEN msk ELSE msk \cup {TypeIdOf(T)},
              ret |-> g.ret, bad |-> g.bad]

\* Faulty variant: the mask is filled but never consulted.
fetch_no_gate(msk, m, T) ==
    LET g == get_mut(m, T)
    IN  [mask |-> msk \cup {TypeIdOf(T)}, ret |-> g.ret, bad |-> g.bad]

\* Faulty variant: any earlier fetch, of whatever type, closes the gate.
fetch_single(msk, m, T) ==
    IF msk # {}
    THEN [mask |-> msk \cup {TypeIdOf(T)}, ret |-> None, bad |-> FALSE]
    ELSE LET g == get_mut(m, T)
         IN  [mask |-> msk \cup {TypeIdOf(T)}, ret |-> g.ret, bad |-> g.bad]

\* Faulty variant: the gate looks at the references still alive, not at the mask.
fetch_live_gate(msk, m, T) ==
    IF TypeIdOf(T) \in {r.key : r \in BagToSet(refs)}
    THEN [mask |-> msk, ret |-> None, bad |-> FALSE]
    ELSE LET g == get_mut(m, T)
         IN  [mask |-> msk \cup {TypeIdOf(T)}, ret |-> g.ret, bad |-> g.bad]

\* fetch::<T>(): the id is inserted into the mask first; a repeated id
\* returns None before the map is looked at.
fetch(msk, m, T) ==
    IF TypeIdOf(T) \in msk
    THEN [mask |-> msk, ret |-> None, bad |-> FALSE]
    ELSE LET g == get_mut(m, T)
         IN  [mask |-> msk \cup {TypeIdOf(T)}, ret |-> g.ret, bad |-> g.bad]

----------------------------------------------------------------------------
Init ==
    /\ data = new
    /\ view = NoView
    /\ mref = None
    /\ session = "none"
    /\ mask = {}
    /\ refs = EmptyBag
    /\ issued = EmptyBag
    /\ fault = FALSE
    /\ last = Call("new", 0, None, None)

\* Faulty variant: a Fetcher session does not keep the map's methods away.
Idle_ignores_session == view = NoView /\ mref = None

\* Nothing borrows the map: its own methods can be called.
Idle == view = NoView /\ mref = None /\ session = "none"

Borrows == <<view, mref, session, mask, refs, issued>>

Get(T) ==
    /\ Idle
    /\ LET r == get(data, T)
       IN  \E ret \in r.rets :
             /\ fault' = (fault \/ r.bad)
             /\ last' = Call("get", T, None, ret)
    /\ UNCHANGED <<data, Borrows>>

Contains(T) ==
    /\ Idle
    /\ last' = Call("contains", T, None, Some(contains(data, T)))
    /\ UNCHANGED <<data, Borrows, fault>>

LenCall ==
    /\ Idle
    /\ last' = Call("len", 0, None, Some(len(data)))
    /\ UNCHANGED <<data, Borrows, fault>>

IsEmptyCall ==
    /\ Idle
    /\ last' = Call("is_empty", 0, None, Some(is_empty(data)))
    /\ UNCHANGED <<data, Borrows, fault>>

Insert(T, v) ==
    /\ Idle
    /\ LET r == insert(data, T, v)
       IN  \E ret \in r.rets :
             /\ data' = r.map
             /\ fault' = (fault \/ r.bad)
             /\ last' = Call("insert", T, Some(v), ret)
    /\ UNCHANGED Borrows

Remove(T) ==
    /\ Idle
    /\ LET r == remove(data, T)
       IN  \E ret \in r.rets :
             /\ data' = r.map
             /\ fault' = (fault \/ r.bad)
             /\ last' = Call("remove", T, None, ret)
    /\ UNCHANGED Borrows

Clear ==
    /\ Idle
    /\ data' = clear(data)
    /\ last' = Call("clear", 0, None, None)
    /\ UNCHANGED <<Borrows, fault>>

GetMut(T) ==
    /\ Idle
    /\ LET r == get_mut(data, T)
       IN  /\ mref' = IF r.ret = None THEN None
                      ELSE Some([key |-> r.ret[1].key, ty |-> r.ret[1].ty, of |-> "map", by |-> "get_mut"])
           /\ fault' = (fault \/ r.bad)
           /\ last' = Call("get_mut", T, None, r.ret)
    /\ UNCHANGED <<data, view, session, mask, refs, issued>>

\* *r = v through the reference held.
WriteRef(v) ==
    /\ mref # None
    /\ data' \in WriteThrough(data, mref[1], v)
    /\ last' = Call("write", mref[1].ty, Some(v), None)
    /\ UNCHANGED <<Borrows, fault>>

DropRef ==
    /\ mref # None
    /\ mref' = None
    /\ last' = Call("drop_ref", mref[1].ty, None, None)
    /\ UNCHANGED <<data, view, session, mask, refs, issued, fault>>

Entry(T) ==
    /\ Idle
    /\ view' = entry(data, T)
    /\ last' = Call("entry", T, None, Some(view'.kind))
    /\ UNCHANGED <<data, mref, session, mask, refs, issued, fault>>

OccGet ==
    /\ view.kind = "Occupied" /\ mref = None
    /\ LET r == OccupiedEntry_get(data, view)
       IN  \E ret \in r.rets :
             /\ fault' = (fault \/ r.bad)
             /\ last' = Call("occupied_get", view.ty, None, Some(ret))
    /\ UNCHANGED <<data, Borrows>>

OccGetMut ==
    /\ view.kind = "Occupied" /\ mref = None
    /\ LET r == OccupiedEntry_get_mut(data, view)
       IN  /\ mref' = Some([key |-> r.ret.key, ty |-> r.ret.ty, of |-> "view", by |-> "occupied_get_mut"])
           /\ fault' = (fault \/ r.bad)
           /\ last' = Call("occupied_get_mut", view.ty, None, Some(r.ret))
    /\ UNCHANGED <<data, view, session, mask, refs, issued>>

OccIntoMut ==
    /\ view.kind = "Occupied" /\ mref = None
    /\ LET r == OccupiedEntry_into_mut(data, view)
       IN  /\ mref' = Some([key |-> r.ret.key, ty |-> r.ret.ty, of |-> "map", by |-> "occupied_into_mut"])
           /\ fault' = (fault \/ r.bad)
           /\ last' = Call("occupied_into_mut", view.ty, None, Some(r.ret))
    /\ view' = NoView
    /\ UNCHANGED <<data, session, mask, refs, issued>>

OccInsert(v) ==
    /\ view.kind = "Occupied" /\ mref = None
    /\ LET r == OccupiedEntry_insert(data, view, v)
       IN  \E ret \in r.rets :
             /\ data' = r.map
             /\ fault' = (fault \/ r.bad)
             /\ last' = Call("occupied_insert", view.ty, Some(v), Some(ret))
    /\ UNCHANGED Borrows

\* Faulty variant: remove borrows the view instead of consuming it.
OccRemove_keeps_view ==
    /\ view.kind = "Occupied" /\ mref = None
    /\ LET r == OccupiedEntry_remove(data, view)
       IN  \E ret \in r.rets :
             /\ data' = r.map
             /\ fault' = (fault \/ r.bad)
             /\ last' = Call("occupied_remove", view.ty, None, Some(ret))
    /\ UNCHANGED Borrows

OccRemove ==
    /\ view.kind = "Occupied" /\ mref = None
    /\ LET r == OccupiedEntry_remove(data, view)
       IN  \E ret \in r.rets :
             /\ data' = r.map
             /\ fault' = (fault \/ r.bad)
             /\ last' = Call("occupied_remove", view.ty, None, Some(ret))
    /\ view' = NoView
    /\ UNCHANGED <<mref, session, mask, refs, issued>>

VacInsert(v) ==
    /\ view.kind = "Vacant" /\ mref = None
    /\ LET r == VacantEntry_insert(data, view, v)
       IN  /\ data' = r.map
           /\ mref' = Some([key |-> r.ret.key, ty |-> r.ret.ty, of |-> "map", by |-> "vacant_insert"])
           /\ last' = Call("vacant_insert", view.ty, Some(v), Some(r.ret))
    /\ view' = NoView
    /\ UNCHANGED <<session, mask, refs, issued, fault>>

\* entry::<T>().or_insert(d); the result recorded is the value seen through
\* the reference returned.
OrInsert(T, d) ==
    /\ Idle
    /\ LET r == or_insert(data, T, d)
       IN  \E x \in Deref(r.map, r.ret) :
             /\ data' = r.map
             /\ mref' = Some([key |-> r.ret.key, ty |-> r.ret.ty, of |-> "map", by |-> "or_insert"])
             /\ fault' = (fault \/ r.bad)
             /\ last' = Call("or_insert", T, Some(d), Some(x))
    /\ UNCHANGED <<view, session, mask, refs, issued>>

\* entry::<T>().or_insert_with(|| d); the argument recorded is the default
\* when the closure ran, and nothing otherwise.
OrInsertWith(T, d) ==
    /\ Idle
    /\ LET r == or_insert_with(data, T, d)
       IN  \E x \in Deref(r.map, r.ret) :
             /\ data' = r.map
             /\ mref' = Some([key |-> r.ret.key, ty |-> r.ret.ty, of |-> "map", by |-> "or_insert_with"])
             /\ fault' = (fault \/ r.bad)
             /\ last' = Call("or_insert_with", T, IF r.called THEN Some(d) ELSE None, Some(x))
    /\ UNCHANGED <<view, session, mask, refs, issued>>

DropView ==
    /\ view # NoView /\ mref = None
    /\ view' = NoView
    /\ last' = Call("drop_view", view.ty, None, None)
    /\ UNCHANGED <<data, mref, session, mask, refs, issued, fault>>

FetcherNew ==
    /\ Idle
    /\ session' = "open"
    /\ mask' = Fetcher_new
    /\ refs' = EmptyBag
    /\ issued' = EmptyBag
    /\ last' = Call("fetcher_new", 0, None, None)
    /\ UNCHANGED <<data, view, mref, fault>>

\* Faulty variant: the value fetched is reset to its default in the map.
Fetch_resets(T) ==
    /\ session = "open"
    /\ LET r == fetch(mask, data, T)
       IN  /\ mask' = r.mask
           /\ refs' = IF r.ret = None THEN refs ELSE refs (+) SetToBag({r.ret[1]})
           /\ issued' = IF r.ret = None THEN issued ELSE issued (+) SetToBag({r.ret[1]})
           /\ data' = IF r.ret = None THEN data
                      ELSE [data EXCEPT ![r.ret[1].key] = Box(T, 0)]
           /\ fault' = (fault \/ r.bad)
           /\ last' = Call("fetch", T, None, r.ret)
    /\ UNCHANGED <<view, mref, session>>

Fetch(T) ==
    /\ session = "open"
    /\ LET r == fetch(mask, data, T)
       IN  /\ mask' = r.mask
           /\ refs' = IF r.ret = None THEN refs ELSE refs (+) SetToBag({r.ret[1]})
           /\ issued' = IF r.ret = None THEN issued ELSE issued (+) SetToBag({r.ret[1]})
           /\ fault' = (fault \/ r.bad)
           /\ last' = Call("fetch", T, None, r.ret)
    /\ UNCHANGED <<data, view, mref, session>>

\* *r = v through a reference the Fetcher returned.
FetchedWrite(r, v) ==
    /\ r \in BagToSet(refs)
    /\ data' \in WriteThrough(data, r, v)
    /\ last' = Call("fetched_write", r.ty, Some(v), None)
    /\ UNCHANGED <<Borrows, fault>>

\* A reference the Fetcher returned goes out of scope.  When it was the last
\* one and the Fetcher is gone too, the borrow of the map ends.
FetchedDrop(r) ==
    /\ r \in BagToSet(refs)
    /\ refs' = refs (-) SetToBag({r})
    /\ session' = IF session = "closed" /\ refs' = EmptyBag THEN "none" ELSE session
    /\ last' = Call("fetched_drop", r.ty, None, None)
    /\ UNCHANGED <<data, view, mref, mask, issued, fault>>

\* The Fetcher itself goes out of scope; its mask goes with it.
FetcherDrop ==
    /\ session = "open"
    /\ session' = IF refs = EmptyBag THEN "none" ELSE "closed"
    /\ mask' = {}
    /\ last' = Call("fetcher_drop", 0, None, None)
    /\ UNCHANGED <<data, view, mref, refs, issued, fault>>

----------------------------------------------------------------------------
(* Calls on the untyped store itself, with any key and any cell.  A         *)
(* reference into the store is a &mut Any: its user can only reach the      *)
(* value as the type the cell really has.                                   *)

Keys == {TypeIdOf(T) : T \in Types}

\* The store never looks inside a cell: one cell of each type stands for all.
Cells == {Box(T, 0) : T \in Types}

RawRef(k, of, by) == [key |-> k, ty |-> data[k].ty, of |-> of, by |-> by]

RawView == view.kind \in {"RawOccupied", "RawVacant"}

RawGetCall(k) ==
    /\ Idle
    /\ last' = Call("raw_get", k.id, None, RawGet(data, k))
    /\ UNCHANGED <<data, Borrows, fault>>

RawContainsKeyCall(k) ==
    /\ Idle
    /\ last' = Call("raw_contains_key", k.id, None, Some(RawContainsKey(data, k)))
    /\ UNCHANGED <<data, Borrows, fault>>

RawGetMutCall(k) ==
    /\ Idle
    /\ mref' = IF RawGetMut(data, k) = None THEN None ELSE Some(RawRef(k, "map", "raw_get_mut"))
    /\ last' = Call("raw_get_mut", k.id, None, RawGetMut(data, k))
    /\ UNCHANGED <<data, view, session, mask, refs, issued, fault>>

RawIndexCall(k) ==
    /\ Idle
    /\ last' = Call("raw_index", k.id, None, RawIndex(data, k))
    /\ UNCHANGED <<data, Borrows, fault>>

RawIndexMutCall(k) ==
    /\ Idle
    /\ mref' = IF RawIndexMut(data, k) = Panic THEN None ELSE Some(RawRef(k, "map", "raw_index_mut"))
    /\ last' = Call("raw_index_mut", k.id, None, RawIndexMut(data, k))
    /\ UNCHANGED <<data, view, session, mask, refs, issued, fault>>

RawRemoveCall(k) ==
    /\ Idle
    /\ data' = RawRemove(data, k).map
    /\ last' = Call("raw_remove", k.id, None, RawRemove(data, k).ret)
    /\ UNCHANGED <<Borrows, fault>>

RawEntryCall(k) ==
    /\ Idle
    /\ view' = [kind |-> IF RawEntry(data, k).kind = "Occupied"
                         THEN "RawOccupied" ELSE "RawVacant",
                key |-> RawEntry(data, k).key, ty |-> 0]
    /\ last' = Call("raw_entry", k.id, None, Some(RawEntry(data, k).kind))
    /\ UNCHANGED <<data, mref, session, mask, refs, issued, fault>>

RawOccGet ==
    /\ view.kind = "RawOccupied" /\ mref = None
    /\ last' = Call("raw_occupied_get", view.key.id, None, Some(RawOccupiedEntry_get(data, view)))
    /\ UNCHANGED <<data, Borrows, fault>>

RawOccGetMut ==
    /\ view.kind = "RawOccupied" /\ mref = None
    /\ mref' = Some(RawRef(RawOccupiedEntry_get_mut(data, view), "view", "raw_occupied_get_mut"))
    /\ last' = Call("raw_occupied_get_mut", view.key.id, None, Some(data[view.key]))
    /\ UNCHANGED <<data, view, session, mask, refs, issued, fault>>

RawOccIntoMut ==
    /\ view.kind = "RawOccupied" /\ mref = None
    /\ mref' = Some(RawRef(RawOccupiedEntry_into_mut(data, view), "map", "raw_occupied_into_mut"))
    /\ view' = NoView
    /\ last' = Call("raw_occupied_into_mut", view.key.id, None, Some(data[view.key]))
    /\ UNCHANGED <<data, session, mask, refs, issued, fault>>

RawOccRemove ==
    /\ view.kind = "RawOccupied" /\ mref = None
    /\ data' = RawOccupiedEntry_remove(data, view).map
    /\ view' = NoView
    /\ last' = Call("raw_occupied_remove", view.key.id, None,
                    Some(RawOccupiedEntry_remove(data, view).ret))
    /\ UNCHANGED <<mref, session, mask, refs, issued, fault>>

\* The unsafe calls: the caller is to pass a cell whose type the key identifies.
RawInsertCall(k, cell) ==
    /\ Idle
    /\ data' = RawInsert(data, k, cell).map
    /\ last' = Call("raw_insert", k.id, Some(cell), RawInsert(data, k, cell).ret)
    /\ UNCHANGED <<Borrows, fault>>

RawOccInsert(cell) ==
    /\ view.kind = "RawOccupied" /\ mref = None
    /\ data' = RawOccupiedEntry_insert(data, view, cell).map
    /\ last' = Call("raw_occupied_insert", view.key.id, Some(cell),
                    Some(RawOccupiedEntry_insert(data, view, cell).ret))
    /\ UNCHANGED <<Borrows, fault>>

RawVacInsert(cell) ==
    /\ view.kind = "RawVacant" /\ mref = None
    /\ data' = RawVacantEntry_insert(data, view, cell).map
    /\ mref' = Some([key |-> view.key, ty |-> cell.ty, of |-> "map", by |-> "raw_vacant_insert"])
    /\ view' = NoView
    /\ last' = Call("raw_vacant_insert", view.key.id, Some(cell), Some(cell))
    /\ UNCHANGED <<session, mask, refs, issued, fault>>

RawOrInsert(cell) ==
    /\ RawView /\ mref = None
    /\ LET r == Entry_or_insert(data, [kind |-> IF view.kind = "RawOccupied"
                                                THEN "Occupied" ELSE "Vacant",
                                       key |-> view.key], cell)
       IN  /\ data' = r.map
           /\ mref' = Some([key |-> r.ret, ty |-> r.map[r.ret].ty, of |-> "map", by |-> "raw_or_insert"])
           /\ last' = Call("raw_or_insert", view.key.id, Some(cell), Some(r.map[r.ret]))
    /\ view' = NoView
    /\ UNCHANGED <<session, mask, refs, issued, fault>>

RawOrInsertWith(cell) ==
    /\ RawView /\ mref = None
    /\ LET r == Entry_or_insert_with(data, [kind |-> IF view.kind = "RawOccupied"
                                                     THEN "Occupied" ELSE "Vacant",
                                            key |-> view.key], cell)
       IN  /\ data' = r.map
           /\ mref' = Some([key |-> r.ret, ty |-> r.map[r.ret].ty, of |-> "map", by |-> "raw_or_insert_with"])
           /\ last' = Call("raw_or_insert_with", view.key.id,
                           IF r.called THEN Some(cell) ELSE None, Some(r.map[r.ret]))
    /\ view' = NoView
    /\ UNCHANGED <<session, mask, refs, issued, fault>>

\* The calls of the untyped store that are not marked unsafe.
RawSafeNext ==
    \/ \E k \in Keys : RawGetCall(k)
    \/ \E k \in Keys : RawContainsKeyCall(k)
    \/ \E k \in Keys : RawGetMutCall(k)
    \/ \E k \in Keys : RawIndexCall(k)
    \/ \E k \in Keys : RawIndexMutCall(k)
    \/ \E k \in Keys : RawRemoveCall(k)
    \/ \E k \in Keys : RawEntryCall(k)
    \/ RawOccGet
    \/ RawOccGetMut
    \/ RawOccIntoMut
    \/ RawOccRemove

\* The calls of the untyped store that are marked unsafe.
RawUnsafeNext ==
    \/ \E k \in Keys, cell \in Cells : RawInsertCall(k, cell)
    \/ \E cell \in Cells : RawOccInsert(cell)
    \/ \E cell \in Cells : RawVacInsert(cell)
    \/ \E cell \in Cells : RawOrInsert(cell)
    \/ \E cell \in Cells : RawOrInsertWith(cell)

Next ==
    \/ \E T \in Types : Get(T)
    \/ \E T \in Types : Contains(T)
    \/ LenCall
    \/ IsEmptyCall
    \/ \E T \in Types, v \in Values : Insert(T, v)
    \/ \E T \in Types : Remove(T)
    \/ Clear
    \/ \E T \in Types : GetMut(T)
    \/ \E v \in Values : WriteRef(v)
    \/ DropRef
    \/ \E T \in Types : Entry(T)
    \/ OccGet
    \/ OccGetMut
    \/ OccIntoMut
    \/ \E v \in Values : OccInsert(v)
    \/ OccRemove
    \/ \E v \in Values : VacInsert(v)
    \/ \E T \in Types, d \in Values : OrInsert(T, d)
    \/ \E T \in Types, d \in Values : OrInsertWith(T, d)
    \/ DropView
    \/ FetcherNew
    \/ \E T \in Types : Fetch(T)
    \/ \E r \in BagToSet(refs), v \in Values : FetchedWrite(r, v)
    \/ \E r \in BagToSet(refs) : FetchedDrop(r)
    \/ FetcherDrop

\* The typed map together with the safe calls of its store.
StoreNext == Next \/ RawSafeNext

StoreSpec == Init /\ [][StoreNext]_vars

\* The untyped store alone, used with any arguments.
RawNext ==
    \/ RawSafeNext
    \/ RawUnsafeNext
    \/ DropRef
    \/ DropView

RawSpec == Init /\ [][RawNext]_vars

Spec == Init /\ [][Next]_vars

----------------------------------------------------------------------------
(* Properties. *)

\* C1: in every reachable state each stored cell was built from the type its
\* key identifies, and no unchecked downcast has met a cell of another type.
StoreInvariant ==
    /\ \A k \in DOMAIN data : TypeIdOf(data[k].ty) = k
    /\ ~fault

\* The map holds every type and the last call replaced a value through an occupied view.
StoreInvariantWitness ==
    /\ len(data) = NumTypes
    /\ last.op = "occupied_insert"

\* C2: right after insert(v) for type T, get::<T>() can only return Some(&v).
RoundTrip ==
    last.op = "insert" => get(data, last.ty).rets = {last.arg}

\* An insert has just replaced a different value of the same type.
RoundTripWitness ==
    /\ last.op = "insert"
    /\ last.ret # None
    /\ last.ret # last.arg

\* C3: insert returns Some(previous value) when the type was present and None
\* when it was absent; afterwards get returns the inserted value, and the call
\* never faults.
OverwriteReturnsPrior ==
    [][last'.op = "insert" =>
        \A T \in Types : last'.ty = T =>
            /\ IF contains(data, T)
               THEN {last'.ret} = get(data, T).rets
               ELSE last'.ret = None
            /\ get(data', T).rets = {last'.arg}
            /\ fault' = fault]_vars

\* An insert over a present type has returned the prior value while other types are stored.
OverwriteReturnsPriorWitness ==
    /\ last.op = "insert"
    /\ last.ret # None
    /\ len(data) > 1

\* The calls that act on one type of the map: insert, remove, entry and the
\* operations of its views, and writes through the references they give.
OneTypeOps ==
    {"insert", "remove", "entry", "occupied_get", "occupied_get_mut",
     "occupied_into_mut", "occupied_insert", "occupied_remove",
     "vacant_insert", "or_insert", "or_insert_with", "drop_view", "write"}

\* C4: a call for type A leaves the presence and the value of every other
\* type B as they were.
TypeIsolation ==
    [][last'.op \in OneTypeOps =>
        \A B \in Types : B # last'.ty =>
            /\ get(data', B).rets = get(data, B).rets
            /\ contains(data', B) = contains(data, B)]_vars

\* A value was removed while another type stays stored.
TypeIsolationWitness ==
    /\ last.op \in {"remove", "occupied_remove"}
    /\ last.ret # None
    /\ len(data) >= 1

\* C5: remove::<T>() on a map holding v for T returns Some(v); afterwards
\* get::<T>() returns None and contains::<T>() is false.
RemovalEmpties ==
    [][last'.op = "remove" =>
        \A T \in Types : (last'.ty = T /\ contains(data, T)) =>
            /\ {last'.ret} = get(data, T).rets
            /\ last'.ret # None
            /\ get(data', T).rets = {None}
            /\ ~contains(data', T)]_vars

\* A remove has returned a value.
RemovalEmptiesWitness ==
    /\ last.op = "remove"
    /\ last.ret # None

\* C6: for an absent type, get, get_mut and remove return None, contains
\* returns false, nothing faults, and the map and its len are unchanged.
AbsenceIsEmpty ==
    [][last'.op \in {"get", "get_mut", "remove", "contains"} =>
        \A T \in Types : (last'.ty = T /\ ~contains(data, T)) =>
            /\ IF last'.op = "contains"
               THEN last'.ret = Some(FALSE)
               ELSE last'.ret = None
            /\ data' = data
            /\ len(data') = len(data)
            /\ fault' = fault]_vars

\* A lookup of an absent type has returned None on a map that is not empty.
AbsenceIsEmptyWitness ==
    /\ last.op \in {"get", "get_mut", "remove"}
    /\ last.ret = None
    /\ ~is_empty(data)

\* C7: a fetch::<T>() of a type not yet in the mask returns Some exactly when
\* T is stored, and records T either way; a fetch of a type already in the
\* mask returns None; the mask loses nothing while the session lasts.
FetcherExclusivity ==
    [][/\ last'.op = "fetch" =>
            \A T \in Types : last'.ty = T =>
                /\ IF TypeIdOf(T) \in mask
                   THEN last'.ret = None
                   ELSE (last'.ret # None) <=> contains(data, T)
                /\ TypeIdOf(T) \in mask'
       /\ (session = "open" /\ session' = "open") => mask \subseteq mask']_vars

\* A second fetch of a stored type has returned None.
FetcherExclusivityWitness ==
    /\ last.op = "fetch"
    /\ last.ret = None
    /\ contains(data, last.ty)
    /\ session = "open"

\* C8: of the references a session has returned, no two refer to the same
\* cell, and the live ones are among them.
FetcherNonAliasing ==
    /\ \A r \in BagToSet(issued) : CopiesIn(r, issued) = 1
    /\ \A r1, r2 \in BagToSet(issued) : r1.key = r2.key => r1 = r2
    /\ refs \sqsubseteq issued

\* Every type has been fetched and a repeated fetch has been refused.
FetcherNonAliasingWitness ==
    /\ BagCardinality(issued) = NumTypes
    /\ last.op = "fetch"
    /\ last.ret = None

\* C9: with a reference live, fetching another stored type returns Some and
\* keeps the earlier references live; a write through one reference leaves
\* the value seen through every other one unchanged.
FetcherTypeIndependence ==
    [][/\ last'.op = "fetch" =>
            \A T \in Types :
                (last'.ty = T /\ contains(data, T) /\ TypeIdOf(T) \notin mask) =>
                    /\ last'.ret # None
                    /\ refs' = refs (+) SetToBag({last'.ret[1]})
       /\ last'.op = "fetched_write" =>
            \A r \in BagToSet(refs) : r.ty # last'.ty =>
                /\ r \in BagToSet(refs')
                /\ Deref(data', r) = Deref(data, r)]_vars

\* Two references are live and one has just been written through.
FetcherTypeIndependenceWitness ==
    /\ BagCardinality(refs) >= 2
    /\ last.op = "fetched_write"

\* C10: dropping a fetched reference while the session is open leaves the
\* mask as it was, the type stays in it, and a fetch of that type returns None.
SessionScopedGate ==
    [][(last'.op = "fetched_drop" /\ session = "open") =>
        \A T \in Types : last'.ty = T =>
            /\ mask' = mask
            /\ TypeIdOf(T) \in mask'
            /\ (fetch(mask, data, T).ret = None)']_vars

\* A fetched reference has been dropped in an open session.
SessionScopedGateWitness ==
    /\ last.op = "fetched_drop"
    /\ session = "open"
    /\ refs = EmptyBag

\* C11: entry::<T>().or_insert(d) on a present type leaves the store as it
\* was and returns the stored value; on an absent type it returns d; and a
\* second or_insert right after it, with any default, stores nothing and
\* returns the value the first call returned.
EntryIdempotence ==
    [][last'.op = "or_insert" =>
        \A T \in Types : last'.ty = T =>
            /\ contains(data, T) => (data' = data /\ {last'.ret} = get(data, T).rets)
            /\ ~contains(data, T) => last'.ret = last'.arg
            /\ \A d2 \in Values :
                 /\ or_insert(data', T, d2).map = data'
                 /\ Deref(data', or_insert(data', T, d2).ret) = {last'.ret[1]}]_vars

\* or_insert has met a stored value other than its default and returned it.
EntryIdempotenceWitness ==
    /\ last.op = "or_insert"
    /\ last.ret # last.arg
    /\ get(data, last.ty).rets = {last.ret}

\* The number of types the map contains a value of.
TypesContained == Cardinality({T \in Types : contains(data, T)})

\* C12: len() is the number of types contained, is_empty() holds exactly when
\* len() is 0, a new map has len() 0, and an insert of a type already present
\* leaves len() unchanged.
LenCountsTypes ==
    /\ [](/\ len(data) = TypesContained
          /\ is_empty(data) <=> (len(data) = 0)
          /\ last.op = "new" => (len(data) = 0 /\ is_empty(data))
          /\ last.op = "len" => last.ret = Some(TypesContained)
          /\ last.op = "is_empty" => last.ret = Some(TypesContained = 0))
    /\ [][(last'.op = "insert" /\ contains(data, last'.ty)) =>
            len(data') = len(data)]_vars

\* An insert has replaced a value while the map holds two types.
LenCountsTypesWitness ==
    /\ last.op = "insert"
    /\ last.ret # None
    /\ len(data) = 2

\* The calls that look a key up, in the typed map and in its store.
LookupOps ==
    {"get", "get_mut", "remove", "contains",
     "raw_get", "raw_get_mut", "raw_remove", "raw_contains_key"}

IndexOps == {"raw_index", "raw_index_mut"}

\* The call just made looked up a key that had no entry.
AbsentLookup == ~contains(data, last'.ty)

EmptyResult ==
    IF last'.op \in {"contains", "raw_contains_key"}
    THEN last'.ret = Some(FALSE)
    ELSE last'.ret = None

\* C13 as stated: every lookup of an absent key, key-indexed access included,
\* yields an empty result and no call ever panics.
AllOperationsTotal ==
    [][/\ last'.ret # Panic
       /\ (last'.op \in LookupOps \cup IndexOps /\ AbsentLookup) => EmptyResult]_vars

\* C13 amended: every lookup of an absent key other than key-indexed access
\* yields an empty result, without a panic or a fault and with the store
\* unchanged; key-indexed access panics exactly when the key has no entry, and
\* no other call panics.
TotalExceptIndex ==
    [][/\ (last'.op \in LookupOps /\ AbsentLookup) =>
            (EmptyResult /\ data' = data /\ fault' = fault)
       /\ last'.op \in IndexOps =>
            /\ (last'.ret = Panic) <=> AbsentLookup
            /\ ~AbsentLookup => last'.ret = Some(data[TypeIdOf(last'.ty)])
            /\ data' = data
       /\ last'.op \notin IndexOps => last'.ret # Panic]_vars

\* Key-indexed access has panicked on a store that has other entries.
TotalExceptIndexWitness ==
    /\ last.op \in IndexOps
    /\ last.ret = Panic
    /\ ~is_empty(data)

\* The operations of an occupied view that take the view by value, and those
\* that borrow it.
OccupiedConsuming == {"occupied_into_mut", "occupied_remove"}

OccupiedBorrowing == {"occupied_get", "occupied_get_mut", "occupied_insert"}

\* C14 as stated: each operation of a view consumes it, so that no second
\* operation can follow on the same view.
EntrySingleUse ==
    [][last'.op \in OccupiedConsuming \cup OccupiedBorrowing \cup {"vacant_insert"} =>
        (view # NoView /\ view' = NoView)]_vars

\* C14 amended: a view operation needs a live view of its kind; into_mut and
\* remove of an occupied view and insert of a vacant view consume the view;
\* get, get_mut and insert of an occupied view leave the same view in place
\* for further operations.
EntryConsumption ==
    [][/\ last'.op \in OccupiedConsuming =>
            (view.kind = "Occupied" /\ view' = NoView)
       /\ last'.op = "vacant_insert" =>
            (view.kind = "Vacant" /\ view' = NoView)
       /\ last'.op \in OccupiedBorrowing =>
            (view.kind = "Occupied" /\ view' = view)]_vars

\* An occupied view is still in place after an insert through it.
EntryConsumptionWitness ==
    /\ last.op = "occupied_insert"
    /\ view.kind = "Occupied"
    /\ contains(data, view.ty)

\* The store invariant: each stored cell was built from the type its key identifies.
StoreTyped(m) == \A k \in DOMAIN m : TypeIdOf(m[k].ty) = k

\* The calls of the store that raw.rs marks unsafe.
UnsafeOps ==
    {"raw_insert", "raw_occupied_insert", "raw_vacant_insert",
     "raw_or_insert", "raw_or_insert_with"}

\* C15 as stated: every call of the store other than insert, the operations
\* of the entry views included, preserves the store invariant.
OnlyInsertBreaks ==
    [][last'.op # "raw_insert" => (StoreTyped(data) => StoreTyped(data'))]_vars

\* C15 amended: every call of the store other than insert, the insert of an
\* occupied or a vacant view, or_insert and or_insert_with preserves the
\* store invariant, for any arguments: it adds no cell and changes the type
\* of none.
OnlyUnsafeBreak ==
    [][last'.op \notin UnsafeOps =>
        /\ StoreTyped(data) => StoreTyped(data')
        /\ \A k \in DOMAIN data' : k \in DOMAIN data /\ data'[k].ty = data[k].ty]_vars

\* A remove has taken a cell out of a store that holds others, all well typed.
OnlyUnsafeBreakWitness ==
    /\ last.op \in {"raw_remove", "raw_occupied_remove"}
    /\ last.ret # None
    /\ StoreTyped(data)
    /\ len(data) >= 2

\* The calls that can be made while a Fetcher session borrows the map.
SessionOps == {"fetch", "fetched_write", "fetched_drop", "fetcher_drop"}

\* C16: from Fetcher::new until the Fetcher and every reference it returned
\* are gone, only the session's own calls run, the set of stored keys does
\* not change, and each live reference refers to a cell stored under its type.
FetcherHoldsMap ==
    [][/\ session # "none" =>
            (last'.op \in SessionOps /\ DOMAIN data' = DOMAIN data)
       /\ session' = "none" => refs' = EmptyBag
       /\ \A r \in BagToSet(refs') :
            /\ r.key \in DOMAIN data'
            /\ r.key = TypeIdOf(r.ty)
            /\ data'[r.key].ty = r.ty]_vars

\* The Fetcher is gone, a reference it returned is still alive and was written through.
FetcherHoldsMapWitness ==
    /\ session = "closed"
    /\ refs # EmptyBag
    /\ last.op = "fetched_write"

\* C17: entry::<T>() yields the Occupied variant exactly when contains::<T>()
\* is true and the Vacant variant otherwise, for the key of T, and leaves the
\* map unchanged.
EntryMatchesPresence ==
    [][last'.op = "entry" =>
        \A T \in Types : last'.ty = T =>
            /\ (view'.kind = "Occupied") <=> contains(data, T)
            /\ (view'.kind = "Vacant") <=> ~contains(data, T)
            /\ last'.ret = Some(view'.kind)
            /\ view'.key = TypeIdOf(T) /\ view'.ty = T
            /\ data' = data /\ fault' = fault]_vars

\* entry has found a stored type in a map that lacks another.
EntryMatchesPresenceWitness ==
    /\ last.op = "entry"
    /\ view.kind = "Occupied"
    /\ len(data) < NumTypes

\* C18: insert(new) on an occupied view of T returns the value stored before;
\* afterwards get::<T>() returns new and len() is unchanged.
OccupiedInsertReplaces ==
    [][last'.op = "occupied_insert" =>
        \A T \in Types : last'.ty = T =>
            /\ contains(data, T)
            /\ {Some(last'.ret[1])} = get(data, T).rets
            /\ get(data', T).rets = {last'.arg}
            /\ len(data') = len(data)
            /\ fault' = fault]_vars

\* An occupied view has replaced a value by a different one.
OccupiedInsertReplacesWitness ==
    /\ last.op = "occupied_insert"
    /\ last.ret # last.arg
    /\ len(data) >= 2

\* C19: remove() on an occupied view of T returns the stored value;
\* afterwards get::<T>() returns None and len() is one less.
OccupiedRemoveEmpties ==
    [][last'.op = "occupied_remove" =>
        \A T \in Types : last'.ty = T =>
            /\ contains(data, T)
            /\ {Some(last'.ret[1])} = get(data, T).rets
            /\ get(data', T).rets = {None}
            /\ len(data') + 1 = len(data)
            /\ fault' = fault]_vars

\* An occupied view has removed a value and others remain.
OccupiedRemoveEmptiesWitness ==
    /\ last.op = "occupied_remove"
    /\ ~contains(data, last.ty)
    /\ len(data) >= 1

\* C20: insert(value) on a vacant view of T stores value under T and returns
\* a reference to the stored value; afterwards get::<T>() returns value and
\* len() is one more.
VacantInsertStores ==
    [][last'.op = "vacant_insert" =>
        \A T \in Types : last'.ty = T =>
            /\ ~contains(data, T)
            /\ get(data', T).rets = {last'.arg}
            /\ mref' # None
            /\ mref'[1].key = TypeIdOf(T) /\ mref'[1].ty = T
            /\ Deref(data', mref'[1]) = {last'.arg[1]}
            /\ len(data') = len(data) + 1
            /\ fault' = fault]_vars

\* A vacant view has stored a value next to another type's.
VacantInsertStoresWitness ==
    /\ last.op = "vacant_insert"
    /\ mref # None
    /\ len(data) >= 2

\* The calls that give a mutable reference to the value of a present type.
UpdateRefs == {"get_mut", "occupied_get_mut"}

\* C21: a write through the reference that get_mut::<T>() or a view's
\* get_mut() gave for a present type T makes get::<T>() return the written
\* value, and leaves len(), the set of stored types and the value of every
\* other type as they were.
InPlaceUpdate ==
    [][(last'.op = "write" /\ mref # None /\ mref[1].by \in UpdateRefs) =>
        \A T \in Types : last'.ty = T =>
            /\ mref[1].key = TypeIdOf(T)
            /\ contains(data, T)
            /\ get(data', T).rets = {last'.arg}
            /\ len(data') = len(data)
            /\ DOMAIN data' = DOMAIN data
            /\ \A B \in Types : B # T =>
                  /\ get(data', B).rets = get(data, B).rets
                  /\ contains(data', B) = contains(data, B)
            /\ fault' = fault]_vars

\* A value was written through such a reference while another type is stored,
\* and get::<T>() now gives the written value.
InPlaceUpdateWitness ==
    /\ last.op = "write"
    /\ mref # None
    /\ mref[1].by \in UpdateRefs
    /\ get(data, last.ty).rets = {last.arg}
    /\ len(data) >= 2

\* C22: fetch::<T>() leaves the set of stored types and every stored value as
\* they were, whether it returns a reference or None; the Fetcher's mask gains
\* T's id on the first fetch::<T>(), and while the session stays open the
\* mask never loses an id and only fetch adds one.
FetchLeavesMap ==
    [][/\ last'.op = "fetch" =>
            \A T \in Types : last'.ty = T =>
                /\ data' = data
                /\ DOMAIN data' = DOMAIN data
                /\ \A B \in Types : get(data', B).rets = get(data, B).rets
                /\ len(data') = len(data)
                /\ mask' = mask \cup {TypeIdOf(T)}
                /\ TypeIdOf(T) \notin mask => Cardinality(mask') = Cardinality(mask) + 1
       /\ (session = "open" /\ session' = "open") =>
            /\ mask \subseteq mask'
            /\ mask' # mask => last'.op = "fetch"]_vars

\* A fetch has returned None in a session that had given out a reference
\* before, with values stored and more than one id in the mask.
FetchLeavesMapWitness ==
    /\ last.op = "fetch"
    /\ last.ret = None
    /\ session = "open"
    /\ issued # EmptyBag
    /\ Cardinality(mask) >= 2
    /\ len(data) >= 1

====
